---- MODULE Spec2Model ----
(***************************************************************************)
(* Gas price escalator of the Ethereum adapter of the lander               *)
(* (rust/main/lander/src/adapter/chains/ethereum/adapter/gas_price/        *)
(* escalator.rs).                                                          *)
(*                                                                         *)
(* The escalator is a pure computation: a config is resolved from the      *)
(* transaction overrides, and each resubmission of a pending transaction   *)
(* calls escalate_gas_price_if_needed(old, estimated, config).  The model  *)
(* runs it as a small state machine: the inputs are drawn in the initial   *)
(* state, one action performs the call, and (in SpecChain) one action      *)
(* feeds the escalated price back as the old price of the next attempt.    *)
(*                                                                         *)
(* U256 and u32 are modelled at the reduced widths U256Bits and U32Bits;   *)
(* every arithmetic step keeps its width, and a step that leaves the       *)
(* width panics.                                                           *)
(***************************************************************************)
EXTENDS Integers, Naturals, Sequences, FiniteSets, TLC

VARIABLES
    pc,                  \* "unresolved" | "resolved" | "ready" | "done"
    overrides,           \* the TransactionOverrides the config is resolved from
    config,              \* the GasEscalatorConfig (or ConfigPanic)
    old_gas_price,       \* GasPrice of the pending attempt
    estimated_gas_price, \* GasPrice newly estimated by the oracle
    result,              \* outcome of the last call: [price, log]
    cap,                 \* SpecChain: the bound P on the oracle's estimates
    attempts             \* SpecChain: resubmissions made so far

vars == <<pc, overrides, config, old_gas_price, estimated_gas_price, result, cap, attempts>>

-----------------------------------------------------------------------------
(* Bounds of the model *)

\* width of the model's U256
U256Bits == 16
\* width of the model's u32
U32Bits == 8
\* small prices 0..MaxPrice are enumerated exhaustively
MaxPrice == 8
\* SpecChain: the caps P in 1..MaxCap are enumerated exhaustively
MaxCap == 6
\* SpecChain: resubmissions per run
MaxAttempts == 3

U256Max == 2^U256Bits - 1
U32Max == 2^U32Bits - 1

-----------------------------------------------------------------------------
(* U256 arithmetic: a panic is the scalar Panic *)

Panic == -1

\* U256 * U256: panics on overflow
U256Mul(a, b) ==
    IF a = Panic \/ b = Panic THEN Panic
    ELSE IF a * b > U256Max THEN Panic
    ELSE a * b

\* U256 + U256: panics on overflow
U256Add(a, b) ==
    IF a = Panic \/ b = Panic THEN Panic
    ELSE IF a + b > U256Max THEN Panic
    ELSE a + b

\* U256 / U256: floor division, panics on a zero divisor
U256Div(a, b) ==
    IF a = Panic \/ b = Panic THEN Panic
    ELSE IF b = 0 THEN Panic
    ELSE a \div b

\* Ord::max on U256
U256MaxOf(a, b) ==
    IF a = Panic \/ b = Panic THEN Panic
    ELSE IF a >= b THEN a ELSE b

\* U256::as_u32: the value when it fits in a u32, a panic otherwise
as_u32(v) == IF v <= U32Max THEN v ELSE Panic

-----------------------------------------------------------------------------
(* GasEscalatorConfig *)

DefaultNumerator == 110
DefaultDenominator == 100
DefaultHistoryWeight == 3
DefaultCurrentWeight == 1

GasEscalatorConfig(n, d, h, c) ==
    [escalation_multiplier_numerator |-> n,
     escalation_multiplier_denominator |-> d,
     twap_history_weight |-> h,
     twap_current_weight |-> c]

\* impl Default for GasEscalatorConfig
Default ==
    GasEscalatorConfig(DefaultNumerator, DefaultDenominator,
                       DefaultHistoryWeight, DefaultCurrentWeight)

\* the config of a resolution that panicked
ConfigPanic == GasEscalatorConfig(Panic, Panic, Panic, Panic)

\* Option<U256>: <<>> is None, <<v>> is Some(v)
\* opt.map(|v| v.as_u32()).unwrap_or(dflt)
MapAsU32UnwrapOr(opt, dflt) == IF opt = <<>> THEN dflt ELSE as_u32(opt[1])

\* a resolution in which the current weight reads the history weight's override
FromLeaky(o) ==
    LET n == MapAsU32UnwrapOr(o.gas_escalator_multiplier_numerator, Default.escalation_multiplier_numerator)
        d == MapAsU32UnwrapOr(o.gas_escalator_multiplier_denominator, Default.escalation_multiplier_denominator)
        h == MapAsU32UnwrapOr(o.gas_escalator_history_weight, Default.twap_history_weight)
        c == MapAsU32UnwrapOr(o.gas_escalator_history_weight, Default.twap_current_weight)
    IN  IF Panic \in {n, d, h, c} THEN ConfigPanic ELSE GasEscalatorConfig(n, d, h, c)

\* impl From<&TransactionOverrides> for GasEscalatorConfig
From(o) ==
    LET n == MapAsU32UnwrapOr(o.gas_escalator_multiplier_numerator, Default.escalation_multiplier_numerator)
        d == MapAsU32UnwrapOr(o.gas_escalator_multiplier_denominator, Default.escalation_multiplier_denominator)
        h == MapAsU32UnwrapOr(o.gas_escalator_history_weight, Default.twap_history_weight)
        c == MapAsU32UnwrapOr(o.gas_escalator_current_weight, Default.twap_current_weight)
    IN  IF Panic \in {n, d, h, c} THEN ConfigPanic ELSE GasEscalatorConfig(n, d, h, c)

-----------------------------------------------------------------------------
(* GasPrice *)

NoPrice == [tag |-> "None"]
NonEip1559(p) == [tag |-> "NonEip1559", gas_price |-> p]
Eip1559(f, t) == [tag |-> "Eip1559", max_fee |-> f, max_priority_fee |-> t]
\* the call panicked: no GasPrice is returned
Panicked == [tag |-> "Panic"]
\* no call made yet
Pending == [tag |-> "Pending"]

-----------------------------------------------------------------------------
(* The escalation *)

\* gas_price * numerator / denominator
apply_escalation_multiplier(gas_price, cfg) ==
    LET numerator == cfg.escalation_multiplier_numerator
        denominator == cfg.escalation_multiplier_denominator
    IN  U256Div(U256Mul(gas_price, numerator), denominator)

\* wrapping U256 arithmetic: the product and the sum modulo 2^U256Bits
WrappingMul(a, b) == IF a = Panic \/ b = Panic THEN Panic ELSE (a * b) % (2^U256Bits)
WrappingAdd(a, b) == IF a = Panic \/ b = Panic THEN Panic ELSE (a + b) % (2^U256Bits)

\* the escalation computed with wrapping instead of checked arithmetic
get_escalated_price_wrapping(old, new, cfg) ==
    LET history_weight == cfg.twap_history_weight
        current_weight == cfg.twap_current_weight
        blended == U256Div(WrappingAdd(WrappingMul(old, history_weight),
                                       WrappingMul(new, current_weight)),
                           U256Add(history_weight, current_weight))
        escalated_from_history ==
            U256Div(WrappingMul(blended, cfg.escalation_multiplier_numerator),
                    cfg.escalation_multiplier_denominator)
        escalated_from_oracle ==
            U256Div(WrappingMul(new, cfg.escalation_multiplier_numerator),
                    cfg.escalation_multiplier_denominator)
    IN  U256MaxOf(escalated_from_history, escalated_from_oracle)

\* the escalation without the oracle floor: the escalated blend alone
get_escalated_price_no_oracle_floor(old, new, cfg) ==
    LET history_weight == cfg.twap_history_weight
        current_weight == cfg.twap_current_weight
        blended == U256Div(U256Add(U256Mul(old, history_weight),
                                   U256Mul(new, current_weight)),
                           U256Add(history_weight, current_weight))
    IN  apply_escalation_multiplier(blended, cfg)

\* the escalation with the estimate subtracted (saturating) in the blend
get_escalated_price_sign_error(old, new, cfg) ==
    LET history_weight == cfg.twap_history_weight
        current_weight == cfg.twap_current_weight
        h == U256Mul(old, history_weight)
        c == U256Mul(new, current_weight)
        diff == IF h = Panic \/ c = Panic THEN Panic ELSE IF h >= c THEN h - c ELSE 0
        blended == U256Div(diff, U256Add(history_weight, current_weight))
        escalated_from_history == apply_escalation_multiplier(blended, cfg)
        escalated_from_oracle == apply_escalation_multiplier(new, cfg)
    IN  U256MaxOf(escalated_from_history, escalated_from_oracle)

\* the escalation with the two weights exchanged
get_escalated_price_swapped_weights(old, new, cfg) ==
    LET history_weight == cfg.twap_current_weight
        current_weight == cfg.twap_history_weight
        blended == U256Div(U256Add(U256Mul(old, history_weight),
                                   U256Mul(new, current_weight)),
                           U256Add(history_weight, current_weight))
        escalated_from_history == apply_escalation_multiplier(blended, cfg)
        escalated_from_oracle == apply_escalation_multiplier(new, cfg)
    IN  U256MaxOf(escalated_from_history, escalated_from_oracle)

\* the escalation without the blend: the multiplier applied to the old price
get_escalated_price_unblended(old, new, cfg) ==
    LET escalated_from_history == apply_escalation_multiplier(old, cfg)
        escalated_from_oracle == apply_escalation_multiplier(new, cfg)
    IN  U256MaxOf(escalated_from_history, escalated_from_oracle)

\* U256::from(u32) widens without loss, so the weights and the multiplier
\* enter the U256 arithmetic with their u32 values
get_escalated_price_from_old_and_new(old, new, cfg) ==
    LET history_weight == cfg.twap_history_weight
        current_weight == cfg.twap_current_weight
        blended == U256Div(U256Add(U256Mul(old, history_weight),
                                   U256Mul(new, current_weight)),
                           U256Add(history_weight, current_weight))
        escalated_from_history == apply_escalation_multiplier(blended, cfg)
        escalated_from_oracle == apply_escalation_multiplier(new, cfg)
    IN  U256MaxOf(escalated_from_history, escalated_from_oracle)

\* the call with the old price kept when there is no estimate
escalate_keeps_old_without_estimate(old, estimated, cfg) ==
    IF old.tag = "None" THEN [price |-> NoPrice, log |-> "info"]
    ELSE IF estimated.tag = "None" THEN [price |-> old, log |-> "info"]
    ELSE IF old.tag = "NonEip1559" /\ estimated.tag = "NonEip1559" THEN
        LET escalated_gas_price ==
                get_escalated_price_from_old_and_new(old.gas_price, estimated.gas_price, cfg)
        IN  IF escalated_gas_price = Panic
            THEN [price |-> Panicked, log |-> "none"]
            ELSE [price |-> NonEip1559(escalated_gas_price), log |-> "debug"]
    ELSE IF old.tag = "Eip1559" /\ estimated.tag = "Eip1559" THEN
        LET escalated_max_fee_per_gas ==
                get_escalated_price_from_old_and_new(old.max_fee, estimated.max_fee, cfg)
            escalated_max_priority_fee_per_gas ==
                get_escalated_price_from_old_and_new(old.max_priority_fee,
                                                     estimated.max_priority_fee, cfg)
        IN  IF escalated_max_fee_per_gas = Panic \/ escalated_max_priority_fee_per_gas = Panic
            THEN [price |-> Panicked, log |-> "none"]
            ELSE [price |-> Eip1559(escalated_max_fee_per_gas,
                                    escalated_max_priority_fee_per_gas),
                  log |-> "debug"]
    ELSE [price |-> NoPrice, log |-> "error"]

\* the call with a single old price escalated against the max_fee of a dual estimate
escalate_across_variants(old, estimated, cfg) ==
    IF old.tag = "None" THEN [price |-> NoPrice, log |-> "info"]
    ELSE IF estimated.tag = "None" THEN [price |-> NoPrice, log |-> "info"]
    ELSE IF old.tag = "NonEip1559" /\ estimated.tag = "NonEip1559" THEN
        LET escalated_gas_price ==
                get_escalated_price_from_old_and_new(old.gas_price, estimated.gas_price, cfg)
        IN  IF escalated_gas_price = Panic
            THEN [price |-> Panicked, log |-> "none"]
            ELSE [price |-> NonEip1559(escalated_gas_price), log |-> "debug"]
    ELSE IF old.tag = "Eip1559" /\ estimated.tag = "Eip1559" THEN
        LET escalated_max_fee_per_gas ==
                get_escalated_price_from_old_and_new(old.max_fee, estimated.max_fee, cfg)
            escalated_max_priority_fee_per_gas ==
                get_escalated_price_from_old_and_new(old.max_priority_fee,
                                                     estimated.max_priority_fee, cfg)
        IN  IF escalated_max_fee_per_gas = Panic \/ escalated_max_priority_fee_per_gas = Panic
            THEN [price |-> Panicked, log |-> "none"]
            ELSE [price |-> Eip1559(escalated_max_fee_per_gas,
                                    escalated_max_priority_fee_per_gas),
                  log |-> "debug"]
    ELSE IF old.tag = "NonEip1559" THEN
        LET escalated_gas_price ==
                get_escalated_price_from_old_and_new(old.gas_price, estimated.max_fee, cfg)
        IN  IF escalated_gas_price = Panic
            THEN [price |-> Panicked, log |-> "none"]
            ELSE [price |-> NonEip1559(escalated_gas_price), log |-> "debug"]
    ELSE [price |-> NoPrice, log |-> "error"]

\* the call with max_fee escalated against the estimate's max_priority_fee
escalate_cross_blended(old, estimated, cfg) ==
    IF old.tag = "None" THEN [price |-> NoPrice, log |-> "info"]
    ELSE IF estimated.tag = "None" THEN [price |-> NoPrice, log |-> "info"]
    ELSE IF old.tag = "NonEip1559" /\ estimated.tag = "NonEip1559" THEN
        LET escalated_gas_price ==
                get_escalated_price_from_old_and_new(old.gas_price, estimated.gas_price, cfg)
        IN  IF escalated_gas_price = Panic
            THEN [price |-> Panicked, log |-> "none"]
            ELSE [price |-> NonEip1559(escalated_gas_price), log |-> "debug"]
    ELSE IF old.tag = "Eip1559" /\ estimated.tag = "Eip1559" THEN
        LET escalated_max_fee_per_gas ==
                get_escalated_price_from_old_and_new(old.max_fee, estimated.max_priority_fee, cfg)
            escalated_max_priority_fee_per_gas ==
                get_escalated_price_from_old_and_new(old.max_priority_fee,
                                                     estimated.max_priority_fee, cfg)
        IN  IF escalated_max_fee_per_gas = Panic \/ escalated_max_priority_fee_per_gas = Panic
            THEN [price |-> Panicked, log |-> "none"]
            ELSE [price |-> Eip1559(escalated_max_fee_per_gas,
                                    escalated_max_priority_fee_per_gas),
                  log |-> "debug"]
    ELSE [price |-> NoPrice, log |-> "error"]

\* the outcome of one call: the GasPrice returned (or Panicked) and the
\* severity of the diagnostic the call emitted
escalate_gas_price_if_needed(old, estimated, cfg) ==
    IF old.tag = "None" THEN [price |-> NoPrice, log |-> "info"]
    ELSE IF estimated.tag = "None" THEN [price |-> NoPrice, log |-> "info"]
    ELSE IF old.tag = "NonEip1559" /\ estimated.tag = "NonEip1559" THEN
        LET escalated_gas_price ==
                get_escalated_price_from_old_and_new(old.gas_price, estimated.gas_price, cfg)
        IN  IF escalated_gas_price = Panic
            THEN [price |-> Panicked, log |-> "none"]
            ELSE [price |-> NonEip1559(escalated_gas_price), log |-> "debug"]
    ELSE IF old.tag = "Eip1559" /\ estimated.tag = "Eip1559" THEN
        LET escalated_max_fee_per_gas ==
                get_escalated_price_from_old_and_new(old.max_fee, estimated.max_fee, cfg)
            escalated_max_priority_fee_per_gas ==
                get_escalated_price_from_old_and_new(old.max_priority_fee,
                                                     estimated.max_priority_fee, cfg)
        IN  IF escalated_max_fee_per_gas = Panic \/ escalated_max_priority_fee_per_gas = Panic
            THEN [price |-> Panicked, log |-> "none"]
            ELSE [price |-> Eip1559(escalated_max_fee_per_gas,
                                    escalated_max_priority_fee_per_gas),
                  log |-> "debug"]
    ELSE [price |-> NoPrice, log |-> "error"]

-----------------------------------------------------------------------------
(* Inputs *)

Prices == (0 .. MaxPrice) \cup {U256Max \div DefaultNumerator, U256Max \div 3, U256Max}
FeePrices == {0, 3, MaxPrice, U256Max}
GasPrices ==
    {NoPrice} \cup {NonEip1559(p) : p \in Prices}
              \cup {Eip1559(f, t) : f \in FeePrices, t \in FeePrices}

Numerators == {0, 1, 2, DefaultNumerator, 200}
Denominators == {0, 1, 3, DefaultDenominator}
HistoryWeights == {0, 1, DefaultHistoryWeight}
CurrentWeights == {0, DefaultCurrentWeight, 2}
Configs ==
    {GasEscalatorConfig(n, d, h, c) :
        n \in Numerators, d \in Denominators, h \in HistoryWeights, c \in CurrentWeights}

OverrideValues == {0, 1, 200, U32Max, U32Max + 1, U256Max}
Options == {<<>>} \cup {<<v>> : v \in OverrideValues}
TransactionOverrides ==
    [gas_escalator_multiplier_numerator : Options,
     gas_escalator_multiplier_denominator : Options,
     gas_escalator_history_weight : Options,
     gas_escalator_current_weight : Options]
NoOverrides ==
    [gas_escalator_multiplier_numerator |-> <<>>,
     gas_escalator_multiplier_denominator |-> <<>>,
     gas_escalator_history_weight |-> <<>>,
     gas_escalator_current_weight |-> <<>>]

NotCalled == [price |-> Pending, log |-> "none"]

-----------------------------------------------------------------------------
(* Spec: one call of escalate_gas_price_if_needed on every input *)

Init ==
    /\ pc = "ready"
    /\ overrides = NoOverrides
    /\ config \in Configs
    /\ old_gas_price \in GasPrices
    /\ estimated_gas_price \in GasPrices
    /\ result = NotCalled
    /\ cap = 0
    /\ attempts = 0

Escalate ==
    /\ pc = "ready"
    /\ result' = escalate_gas_price_if_needed(old_gas_price, estimated_gas_price, config)
    /\ pc' = "done"
    /\ UNCHANGED <<overrides, config, old_gas_price, estimated_gas_price, cap, attempts>>

Next == Escalate

Spec == Init /\ [][Next]_vars

-----------------------------------------------------------------------------
(* SpecConfig: the config is resolved from every set of overrides *)

InitConfig ==
    /\ pc = "unresolved"
    /\ overrides \in TransactionOverrides
    /\ config = Default
    /\ old_gas_price = NoPrice
    /\ estimated_gas_price = NoPrice
    /\ result = NotCalled
    /\ cap = 0
    /\ attempts = 0

Resolve ==
    /\ pc = "unresolved"
    /\ config' = From(overrides)
    /\ pc' = "resolved"
    /\ UNCHANGED <<overrides, old_gas_price, estimated_gas_price, result, cap, attempts>>

NextConfig == Resolve

SpecConfig == InitConfig /\ [][NextConfig]_vars

-----------------------------------------------------------------------------
(* SpecChain: a single-price transaction is resubmitted again and again    *)
(* under the default config; its first price is at most 2 * cap, every     *)
(* estimate of the oracle is at most cap, and each escalated price is the  *)
(* old price of the next attempt.                                          *)

Caps == (1 .. MaxCap) \cup {U256Max \div (2 * DefaultNumerator), U256Max \div 2}
ChainOlds(P) == {x \in (0 .. 2 * MaxCap) \cup {P, 2 * P - 1, 2 * P} : x <= 2 * P}
ChainEstimates(P) == {x \in (0 .. MaxCap) \cup {P - 1, P} : x <= P}

InitChain ==
    /\ pc = "ready"
    /\ overrides = NoOverrides
    /\ config = From(overrides)
    /\ cap \in Caps
    /\ old_gas_price \in {NonEip1559(o) : o \in ChainOlds(cap)}
    /\ estimated_gas_price \in {NonEip1559(e) : e \in ChainEstimates(cap)}
    /\ result = NotCalled
    /\ attempts = 0

\* the escalated price replaces the pending attempt, which does not confirm
\* either, and the oracle gives a fresh estimate
Resubmit ==
    /\ pc = "done"
    /\ result.price.tag = "NonEip1559"
    /\ attempts < MaxAttempts
    /\ old_gas_price' = result.price
    /\ estimated_gas_price' \in {NonEip1559(e) : e \in ChainEstimates(cap)}
    /\ attempts' = attempts + 1
    /\ pc' = "ready"
    /\ UNCHANGED <<overrides, config, result, cap>>

NextChain == Escalate \/ Resubmit

SpecChain == InitChain /\ [][NextChain]_vars

-----------------------------------------------------------------------------
(* Properties *)

Present(g) == g.tag \in {"NonEip1559", "Eip1559"}
SingleCall ==
    /\ pc = "done"
    /\ old_gas_price.tag = "NonEip1559"
    /\ estimated_gas_price.tag = "NonEip1559"
DualCall ==
    /\ pc = "done"
    /\ old_gas_price.tag = "Eip1559"
    /\ estimated_gas_price.tag = "Eip1559"
ValidConfig ==
    /\ config.escalation_multiplier_denominator # 0
    /\ config.twap_history_weight + config.twap_current_weight # 0
MultiplierAtLeastOne ==
    config.escalation_multiplier_numerator >= config.escalation_multiplier_denominator

\* the scalar pairs the call hands to get_escalated_price_from_old_and_new
ScalarInputs ==
    IF SingleCall
    THEN {<<old_gas_price.gas_price, estimated_gas_price.gas_price>>}
    ELSE IF DualCall
    THEN {<<old_gas_price.max_fee, estimated_gas_price.max_fee>>,
          <<old_gas_price.max_priority_fee, estimated_gas_price.max_priority_fee>>}
    ELSE {}

\* <<old, new, escalated>> for every scalar the call returned
ScalarCalls ==
    IF SingleCall /\ result.price.tag = "NonEip1559"
    THEN {<<old_gas_price.gas_price, estimated_gas_price.gas_price, result.price.gas_price>>}
    ELSE IF DualCall /\ result.price.tag = "Eip1559"
    THEN {<<old_gas_price.max_fee, estimated_gas_price.max_fee, result.price.max_fee>>,
          <<old_gas_price.max_priority_fee, estimated_gas_price.max_priority_fee,
            result.price.max_priority_fee>>}
    ELSE {}

\* the formula of the escalation in unbounded integer arithmetic
\* (for a config with non-zero denominator and weight sum)
ExactBlended(old, new, cfg) ==
    (old * cfg.twap_history_weight + new * cfg.twap_current_weight)
        \div (cfg.twap_history_weight + cfg.twap_current_weight)
ExactMultiplied(x, cfg) ==
    (x * cfg.escalation_multiplier_numerator) \div cfg.escalation_multiplier_denominator
Larger(a, b) == IF a >= b THEN a ELSE b
ExactEscalated(old, new, cfg) ==
    Larger(ExactMultiplied(ExactBlended(old, new, cfg), cfg), ExactMultiplied(new, cfg))

\* an intermediate value of the escalation exceeds the width
Overflows(old, new, cfg) ==
    \/ old * cfg.twap_history_weight > U256Max
    \/ new * cfg.twap_current_weight > U256Max
    \/ old * cfg.twap_history_weight + new * cfg.twap_current_weight > U256Max
    \/ new * cfg.escalation_multiplier_numerator > U256Max
    \/ /\ cfg.twap_history_weight + cfg.twap_current_weight # 0
       /\ ExactBlended(old, new, cfg) * cfg.escalation_multiplier_numerator > U256Max

\* C1: a single-price call with a valid config whose multiplier is >= 1
\* returns a price that is at least the old price, whatever the estimate.
C1_NeverBelowOld ==
    (SingleCall /\ ValidConfig /\ MultiplierAtLeastOne /\ result.price.tag = "NonEip1559")
        => result.price.gas_price >= old_gas_price.gas_price

\* C2: every scalar returned is at least floor(new * numerator / denominator),
\* and with numerator >= denominator it is also at least the blended value
\* and at least the new price.
C2_Floors ==
    \A c \in ScalarCalls :
        /\ c[3] >= ExactMultiplied(c[2], config)
        /\ MultiplierAtLeastOne =>
              /\ c[3] >= ExactBlended(c[1], c[2], config)
              /\ c[3] >= c[2]

\* a single-price call with multiplier > 1 and an estimate below the old price
\* returned a price above the estimate
C2_Witness ==
    /\ SingleCall
    /\ result.price.tag = "NonEip1559"
    /\ config.escalation_multiplier_numerator > config.escalation_multiplier_denominator
    /\ estimated_gas_price.gas_price < old_gas_price.gas_price
    /\ estimated_gas_price.gas_price > 0
    /\ result.price.gas_price > ExactMultiplied(estimated_gas_price.gas_price, config)

\* C3: the call returns None whenever the old price or the estimate is None,
\* for every value of the other argument and every config, and it does not
\* panic even with a zero denominator or a zero weight sum.
C3_AbsencePropagates ==
    (pc = "done" /\ (old_gas_price.tag = "None" \/ estimated_gas_price.tag = "None"))
        => result.price = NoPrice

\* a present price met None under a config with a zero denominator and a zero
\* weight sum, and the call returned None
C3_Witness ==
    /\ pc = "done"
    /\ old_gas_price.tag = "Eip1559"
    /\ estimated_gas_price.tag = "None"
    /\ config.escalation_multiplier_denominator = 0
    /\ config.twap_history_weight + config.twap_current_weight = 0
    /\ result.price = NoPrice

\* C4: when both prices are present and of different variants the call
\* returns None (it neither panics nor fabricates a price), for all prices
\* and every config, and no other branch emits the error diagnostic.
C4_MismatchSafety ==
    pc = "done" =>
        LET mismatch == /\ Present(old_gas_price)
                        /\ Present(estimated_gas_price)
                        /\ old_gas_price.tag # estimated_gas_price.tag
        IN  /\ mismatch => result.price = NoPrice
            /\ (result.log = "error") <=> mismatch

\* a single old price met a dual estimate under a config with a zero
\* denominator, and the call returned None with the error diagnostic
C4_Witness ==
    /\ pc = "done"
    /\ old_gas_price.tag = "NonEip1559"
    /\ estimated_gas_price.tag = "Eip1559"
    /\ old_gas_price.gas_price > 0
    /\ config.escalation_multiplier_denominator = 0
    /\ result = [price |-> NoPrice, log |-> "error"]

\* C5: a returned price is None or of the variant of the old price, and for
\* two dual prices each component of the result is unchanged when the other
\* component of either input is changed (for every changed call that returns).
C5_VariantAndIndependence ==
    pc = "done" =>
        /\ result.price.tag \in {"None", "NonEip1559", "Eip1559"}
              => result.price.tag \in {"None", old_gas_price.tag}
        /\ (DualCall /\ result.price.tag = "Eip1559") =>
              \A a \in FeePrices, b \in FeePrices :
                  LET priority_changed ==
                          escalate_gas_price_if_needed(
                              Eip1559(old_gas_price.max_fee, a),
                              Eip1559(estimated_gas_price.max_fee, b), config).price
                      fee_changed ==
                          escalate_gas_price_if_needed(
                              Eip1559(a, old_gas_price.max_priority_fee),
                              Eip1559(b, estimated_gas_price.max_priority_fee), config).price
                  IN  /\ priority_changed.tag = "Eip1559"
                            => priority_changed.max_fee = result.price.max_fee
                      /\ fee_changed.tag = "Eip1559"
                            => fee_changed.max_priority_fee = result.price.max_priority_fee

\* a dual call returned two different components, and changing the priority
\* fees of both inputs changes the priority fee of the result
C5_Witness ==
    /\ DualCall
    /\ result.price.tag = "Eip1559"
    /\ result.price.max_fee # result.price.max_priority_fee
    /\ \E a \in FeePrices, b \in FeePrices :
          LET changed == escalate_gas_price_if_needed(
                             Eip1559(old_gas_price.max_fee, a),
                             Eip1559(estimated_gas_price.max_fee, b), config).price
          IN  /\ changed.tag = "Eip1559"
              /\ changed.max_priority_fee # result.price.max_priority_fee

\* C6: for a fixed old price and config, a scalar returned for the estimate
\* new is <= every scalar returned for an estimate >= new, and >= every
\* scalar returned for an estimate <= new.
C6_MonotoneInEstimate ==
    \A c \in ScalarCalls : \A other \in Prices :
        LET r == get_escalated_price_from_old_and_new(c[1], other, config)
        IN  r # Panic =>
                /\ c[2] <= other => c[3] <= r
                /\ other <= c[2] => r <= c[3]

\* a single-price call returned, and a larger estimate returns a strictly
\* larger price although the old price exceeds both estimates
C6_Witness ==
    /\ SingleCall
    /\ result.price.tag = "NonEip1559"
    /\ \E other \in Prices :
          /\ estimated_gas_price.gas_price < other
          /\ other < old_gas_price.gas_price
          /\ get_escalated_price_from_old_and_new(old_gas_price.gas_price, other, config) # Panic
          /\ get_escalated_price_from_old_and_new(old_gas_price.gas_price, other, config)
                > result.price.gas_price

Resolved(opt, dflt) == IF opt = <<>> THEN dflt ELSE opt[1]
FitsU32(opt) == opt = <<>> \/ opt[1] <= U32Max
EachFieldResolved ==
    /\ config.escalation_multiplier_numerator
          = Resolved(overrides.gas_escalator_multiplier_numerator, DefaultNumerator)
    /\ config.escalation_multiplier_denominator
          = Resolved(overrides.gas_escalator_multiplier_denominator, DefaultDenominator)
    /\ config.twap_history_weight
          = Resolved(overrides.gas_escalator_history_weight, DefaultHistoryWeight)
    /\ config.twap_current_weight
          = Resolved(overrides.gas_escalator_current_weight, DefaultCurrentWeight)

\* C8 as stated: every field of the resolved config is the override value
\* when set and the default (110, 100, 3, 1) when unset, for every one of
\* the 16 set/unset combinations.
C8_EachFieldResolved ==
    pc = "resolved" => EachFieldResolved

\* C8 as amended: when every override that is set fits in 32 bits, every
\* field of the resolved config is the override value when set and the
\* default when unset; when one does not fit, the resolution panics and
\* there is no config.
C8_EachFieldResolvedWhenFitting ==
    pc = "resolved" =>
        IF /\ FitsU32(overrides.gas_escalator_multiplier_numerator)
           /\ FitsU32(overrides.gas_escalator_multiplier_denominator)
           /\ FitsU32(overrides.gas_escalator_history_weight)
           /\ FitsU32(overrides.gas_escalator_current_weight)
        THEN EachFieldResolved
        ELSE config = ConfigPanic

\* the history weight alone is overridden, and the config keeps the three
\* other defaults
C8_Witness ==
    /\ pc = "resolved"
    /\ overrides.gas_escalator_multiplier_numerator = <<>>
    /\ overrides.gas_escalator_multiplier_denominator = <<>>
    /\ overrides.gas_escalator_history_weight = <<200>>
    /\ overrides.gas_escalator_current_weight = <<>>
    /\ config = GasEscalatorConfig(DefaultNumerator, DefaultDenominator, 200,
                                   DefaultCurrentWeight)

\* C9: under the default config, in a chain of resubmissions whose first old
\* price is <= 2 * cap and whose estimates are all <= cap, every old price
\* and every escalated price is <= 2 * cap.
C9_ChainStaysBelowTwiceCap ==
    /\ old_gas_price.gas_price <= 2 * cap
    /\ estimated_gas_price.gas_price <= cap
    /\ (pc = "done" /\ result.price.tag = "NonEip1559")
          => result.price.gas_price <= 2 * cap

\* after two resubmissions the price is above the cap and still rises
C9_Witness ==
    /\ pc = "done"
    /\ attempts >= 2
    /\ result.price.tag = "NonEip1559"
    /\ old_gas_price.gas_price > cap
    /\ result.price.gas_price > old_gas_price.gas_price

====
